---- MODULE Spec2Model ----
(***************************************************************************)
(* Model of cambridgeavr/protocol.py: the AVR asyncio.Protocol handler of  *)
(* the Cambridge Audio receiver (framing, decoding, the volume probe and   *)
(* target convergence, the command encoder and the public accessors).      *)
(*                                                                         *)
(* Python str values are sequences of one-character strings, so that       *)
(* startswith, slicing, split and int() are computed, not assumed.         *)
(***************************************************************************)
EXTENDS Integers, Sequences, FiniteSets, TLC

\* ------------------------------------------------------------------------
\* Bounds of the model (not program constants)
\* ------------------------------------------------------------------------
\* number of wire pieces the device may put into one received chunk
MaxPieces == 2

\* ------------------------------------------------------------------------
\* Python values
\* ------------------------------------------------------------------------
\* None, as the value of an optional field: the empty tuple; Some(x) is <<x>>
None == <<>>
Some(x) == <<x>>

\* the message delimiter "\r"
CR == "\r"

Digits == {"0", "1", "2", "3", "4", "5", "6", "7", "8", "9"}

DigitVal(c) ==
  CASE c = "0" -> 0 [] c = "1" -> 1 [] c = "2" -> 2 [] c = "3" -> 3
    [] c = "4" -> 4 [] c = "5" -> 5 [] c = "6" -> 6 [] c = "7" -> 7
    [] c = "8" -> 8 [] c = "9" -> 9

RECURSIVE DigitsVal(_)
DigitsVal(s) ==
  IF s = <<>> THEN 0
  ELSE 10 * DigitsVal(SubSeq(s, 1, Len(s) - 1)) + DigitVal(s[Len(s)])

AllDigits(s) == s # <<>> /\ \A i \in 1..Len(s) : s[i] \in Digits

\* int(str): an optional sign and at least one digit, else ValueError
\* (ok = FALSE).  The characters of the model are "#", ",", "-", "x" and
\* the digits, so the blanks and underscores int() also accepts never occur.
int(s) ==
  IF s # <<>> /\ s[1] \in {"-", "+"}
  THEN LET d == SubSeq(s, 2, Len(s)) IN
       IF AllDigits(d)
       THEN [ok |-> TRUE, val |-> IF s[1] = "-" THEN 0 - DigitsVal(d) ELSE DigitsVal(d)]
       ELSE [ok |-> FALSE, val |-> 0]
  ELSE IF AllDigits(s) THEN [ok |-> TRUE, val |-> DigitsVal(s)]
       ELSE [ok |-> FALSE, val |-> 0]

\* str.startswith
startswith(data, prefix) ==
  Len(data) >= Len(prefix) /\ SubSeq(data, 1, Len(prefix)) = prefix

\* data[n:]
SliceFrom(data, n) == SubSeq(data, n + 1, Len(data))

\* str.split("\r"): the segments between delimiters, the one after the last
\* delimiter included (it is "" when the string ends with the delimiter)
RECURSIVE SplitFrom(_, _, _)
SplitFrom(s, i, cur) ==
  IF i > Len(s) THEN <<cur>>
  ELSE IF s[i] = CR THEN <<cur>> \o SplitFrom(s, i + 1, <<>>)
       ELSE SplitFrom(s, i + 1, Append(cur, s[i]))

split(s) == SplitFrom(s, 1, <<>>)

\* ------------------------------------------------------------------------
\* Catalog
\* ------------------------------------------------------------------------
CMD_SET_POWER_STATE == <<"1", ",", "0", "1">>
POWER_STATE_ON == <<"1">>
POWER_STATE_OFF == <<"0">>
MUTE_STATE_OFF == <<"0", "0">>
MUTE_STATE_ON == <<"0", "1">>
CMD_VOLUME_UP == <<"1", ",", "0", "2">>
CMD_VOLUME_DOWN == <<"1", ",", "0", "3">>
CMD_SET_MUTE_STATE == <<"1", ",", "1", "1">>
CMD_SELECT_INPUT == <<"2", ",", "0", "1">>

ATTR_POWER_STATE == <<"#", "6", ",", "0", "1">>
ATTR_MUTE_STATE == <<"#", "6", ",", "1", "1">>
ATTR_VOLUME_UP == <<"#", "6", ",", "0", "2">>
ATTR_VOLUME_DOWN == <<"#", "6", ",", "0", "3">>
ATTR_SELECTED_INPUT == <<"#", "7", ",", "0", "1">>
ATTR_AUDIO_SOURCE == <<"#", "7", ",", "0", "4">>
ATTR_MYSTERY == <<"#", "7", ",", "0", "5">>
ATTR_SW_VERSION == <<"#", "1", "0", ",", "0", "1">>
ATTR_PROTOCOL_VERSION == <<"#", "1", "0", ",", "0", "2">>

ERR_GROUP_UNKNOWN == <<"#", "1", "1", ",", "0", "1">>
ERR_NUMBER_UNKNOWN == <<"#", "1", "1", ",", "0", "2">>
ERR_DATA == <<"#", "1", "1", ",", "0", "3">>

\* LOOKUP with a field of its own for the Volume (Down) prefix
LOOKUP_OwnFields ==
  << [key |-> ATTR_POWER_STATE, name |-> "power_state"],
     [key |-> ATTR_MUTE_STATE, name |-> "mute_state"],
     [key |-> ATTR_VOLUME_UP, name |-> "volume"],
     [key |-> ATTR_VOLUME_DOWN, name |-> "volume_down"],
     [key |-> ATTR_SELECTED_INPUT, name |-> "selected_input"],
     [key |-> ATTR_AUDIO_SOURCE, name |-> "audio_source"],
     [key |-> ATTR_MYSTERY, name |-> "mystery"],
     [key |-> ATTR_SW_VERSION, name |-> "software_version"],
     [key |-> ATTR_PROTOCOL_VERSION, name |-> "protocol_version"] >>

\* LOOKUP: the attribute prefixes in the order the dict declares them, each
\* with the name of the instance field that stores its value.  The two
\* volume prefixes share the field "volume".
LOOKUP ==
  << [key |-> ATTR_POWER_STATE, name |-> "power_state"],
     [key |-> ATTR_MUTE_STATE, name |-> "mute_state"],
     [key |-> ATTR_VOLUME_UP, name |-> "volume"],
     [key |-> ATTR_VOLUME_DOWN, name |-> "volume"],
     [key |-> ATTR_SELECTED_INPUT, name |-> "selected_input"],
     [key |-> ATTR_AUDIO_SOURCE, name |-> "audio_source"],
     [key |-> ATTR_MYSTERY, name |-> "mystery"],
     [key |-> ATTR_SW_VERSION, name |-> "software_version"],
     [key |-> ATTR_PROTOCOL_VERSION, name |-> "protocol_version"] >>

AttrNames == {LOOKUP[i].name : i \in 1..Len(LOOKUP)}

LookupName(key) ==
  LOOKUP[CHOOSE i \in 1..Len(LOOKUP) : LOOKUP[i].key = key].name

\* ------------------------------------------------------------------------
\* Conversion functions
\* ------------------------------------------------------------------------
MinAttenuation == -90
MaxVolume == 100

\* round(n / d) for n >= 0, d > 0, ties to even (Python 3 round)
RoundHalfEven(n, d) ==
  LET q == n \div d
      r == n % d
  IN  IF 2 * r > d \/ (2 * r = d /\ q % 2 = 1) THEN q + 1 ELSE q

\* The volumes v in 0..100 whose double product (v / 100) * 90 is not the
\* exact 9v/10 and lies on the other side of a tie: (35 / 100) * 90 is
\* 31.499999999999996, which rounds to 31, where the exact 31.5 gives 32.
FloatBelowTie == {35}

\* attenuation_to_volume with the scale of the volume (100) as the divisor
attenuation_to_volume_WrongScale(value) == RoundHalfEven((90 + value) * 100, 100)

\* attenuation_to_volume(value) = round((90.00 + int(value)) / 90 * 100),
\* for an int value.  (90 + value) * 10 / 9 is never a tie.
attenuation_to_volume(value) == RoundHalfEven((90 + value) * 100, 90)

\* volume_to_attenuation(value) = round((value / 100) * 90) - 90
volume_to_attenuation(value) ==
  (IF value \in FloatBelowTie THEN (value * 90) \div 100
   ELSE RoundHalfEven(value * 90, 100)) - 90

\* ------------------------------------------------------------------------
\* The handler instance and the event loop
\* ------------------------------------------------------------------------
\* the transport object handed to connection_made
TRANSPORT == <<"transport">>

\* callbacks the handler hands to loop.call_soon
PoweronCb == [cb |-> "_poweron_callback", data |-> <<>>]
UpdateCb(data) == [cb |-> "_update_callback", data |-> data]
ConnectionLostCb == [cb |-> "_connection_lost_callback", data |-> <<>>]

\* the callables an application may hand to AVR(...)
UPDATE_CALLBACK == <<"update_callback">>
CONNECTION_LOST_CALLBACK == <<"connection_lost_callback">>

\* AVR.__init__: the two callbacks are optional and default to None; every
\* LOOKUP field starts as ""
NewAVR(update_callback, connection_lost_callback) ==
  [ _connection_lost_callback |-> connection_lost_callback,
    _update_callback |-> update_callback,
    buffer |-> <<>>,
    attrs |-> [n \in AttrNames |-> <<>>],
    _poweron_refresh_successful |-> FALSE,
    _volume_update_state |-> 0,
    _volume_target |-> None,
    transport |-> None ]

\* A world is the handler instance together with what its methods act on:
\* the loop's ready queue (call_soon), the loop's timers (call_later, all
\* with the same delay of 2 seconds, hence first armed, first fired), the
\* bytes written to the transport during the running call (out), the
\* exception propagating out of it (exc) and the record of the decoder
\* calls made by it (log).
World(a, r, t) ==
  [avr |-> a, ready |-> r, timers |-> t, out |-> <<>>, exc |-> None, log |-> <<>>]

call_soon(w, cb) == [w EXCEPT !.ready = Append(@, cb)]

call_later(w, tries) == [w EXCEPT !.timers = Append(@, tries)]

\* send_command: "#" + command + "," + data + "\r", written to the
\* transport; without a transport the write raises inside the try block,
\* a warning is logged and the command is dropped.
Encode(command, data) == <<"#">> \o command \o <<",">> \o data \o <<CR>>

\* send_command without the try block: the AttributeError of None.write
\* reaches the caller
send_command_NoTry(w, command, data) ==
  IF w.avr.transport # None
  THEN [w EXCEPT !.out = Append(@, Encode(command, data))]
  ELSE [w EXCEPT !.exc = Some("AttributeError")]

send_command(w, command, data) ==
  IF w.avr.transport # None
  THEN [w EXCEPT !.out = Append(@, Encode(command, data))]
  ELSE w

_get_attribute_value(a, attr) == a.attrs[LookupName(attr)]

_set_attribute_value(a, attr, value) ==
  [a EXCEPT !.attrs[LookupName(attr)] = value]

\* _get_integer: int(value), 0 on ValueError
_get_integer(a, attr) ==
  LET r == int(_get_attribute_value(a, attr)) IN IF r.ok THEN r.val ELSE 0

\* _get_boolean: bool(int(value)), False on ValueError
_get_boolean(a, attr) ==
  LET r == int(_get_attribute_value(a, attr)) IN IF r.ok THEN r.val # 0 ELSE FALSE

\* the read accessors
power(a) == _get_boolean(a, ATTR_POWER_STATE)

mute(a) == _get_boolean(a, ATTR_MUTE_STATE)

\* input_number (getter)
input_number(a) == _get_integer(a, ATTR_SELECTED_INPUT)

\* attenuation (getter): int(volume), -90 on ValueError
attenuation(a) ==
  LET r == int(_get_attribute_value(a, ATTR_VOLUME_UP)) IN
  IF r.ok THEN r.val ELSE MinAttenuation

volume(a) == attenuation_to_volume(attenuation(a))

\* truth value of self._volume_target: None and 0 are false
Truthy(t) == t # None /\ t[1] # 0

\* the number of retries of the probe
MaxTries == 10

\* _refresh_volume(tries): the three consecutive ifs
_refresh_volume(w, tries) ==
  LET w1 == IF w.avr._volume_update_state = 0
            THEN [w EXCEPT !.avr._volume_update_state = 1]
            ELSE w
      w2 == IF w1.avr._volume_update_state = 1 /\ tries < MaxTries
            THEN call_later(send_command(w1, CMD_VOLUME_DOWN, <<>>), tries + 1)
            ELSE w1
  IN  IF w2.avr._volume_update_state = 2
      THEN [w2 EXCEPT !.avr._volume_update_state = 0]
      ELSE w2

_poweron_callback(w) ==
  [_refresh_volume(w, 0) EXCEPT !.avr._poweron_refresh_successful = TRUE]

IsError(data) ==
  \/ startswith(data, ERR_GROUP_UNKNOWN)
  \/ startswith(data, ERR_NUMBER_UNKNOWN)
  \/ startswith(data, ERR_DATA)

\* matching on the leading "#" only
Matches_Loose(data) ==
  {i \in 1..Len(LOOKUP) : data # <<>> /\ data[1] = LOOKUP[i].key[1]}

\* the LOOKUP entries whose prefix the message starts with
Matches(data) == {i \in 1..Len(LOOKUP) : startswith(data, LOOKUP[i].key)}

\* the first of them in the order of LOOKUP
FirstMatch(data) == CHOOSE i \in Matches(data) : \A j \in Matches(data) : i <= j

IsVolume(data) ==
  startswith(data, ATTR_VOLUME_UP) \/ startswith(data, ATTR_VOLUME_DOWN)

\* the for loop of _parse_message: store the value of the first matching
\* prefix; newdata when it differs from the stored one
StoreStep(w, data) ==
  IF Matches(data) = {} THEN [w |-> w, newdata |-> FALSE, recognized |-> FALSE]
  ELSE LET key == LOOKUP[FirstMatch(data)].key
           value == SliceFrom(data, Len(key) + 1)
           oldvalue == _get_attribute_value(w.avr, key)
       IN  [w |-> [w EXCEPT !.avr = _set_attribute_value(@, key, value)],
            newdata |-> (oldvalue # value), recognized |-> TRUE]

\* the power-on callback called from the decoder instead of scheduled
PoweronStep_Inline(w) ==
  IF power(w.avr) /\ ~w.avr._poweron_refresh_successful
  THEN _poweron_callback(w)
  ELSE w

\* "Poweron update": checked for every message that is not a device error
PoweronStep(w) ==
  IF power(w.avr) /\ ~w.avr._poweron_refresh_successful
  THEN call_soon(w, PoweronCb)
  ELSE w

\* "Volume update": the nudge towards the target, then the probe's answer
TargetStep(w) ==
  LET vol == _get_integer(w.avr, ATTR_VOLUME_UP)
      target == w.avr._volume_target
  IN  IF Truthy(target)
      THEN IF vol # target[1]
           THEN send_command(w, IF target[1] > vol THEN CMD_VOLUME_UP
                                ELSE CMD_VOLUME_DOWN, <<>>)
           ELSE [w EXCEPT !.avr._volume_target = None]
      ELSE w

\* the probe's answer taken in any state
ProbeStep_AnyState(w) ==
  [send_command(w, CMD_VOLUME_UP, <<>>) EXCEPT !.avr._volume_update_state = 2]

ProbeStep(w) ==
  IF w.avr._volume_update_state = 1
  THEN [send_command(w, CMD_VOLUME_UP, <<>>) EXCEPT !.avr._volume_update_state = 2]
  ELSE w

\* the update callback scheduled for every message that is not an error
NotifyStep_Always(w, newdata, data) ==
  IF w.avr._update_callback # None THEN call_soon(w, UpdateCb(data)) ELSE w

\* the update callback, if there is one, is scheduled when newdata is set
NotifyStep(w, newdata, data) ==
  IF newdata
  THEN IF w.avr._update_callback # None THEN call_soon(w, UpdateCb(data)) ELSE w
  ELSE w

_parse_message(w, data) ==
  IF IsError(data) THEN w
  ELSE LET s == StoreStep(w, data)
           w1 == PoweronStep(s.w)
       IN  IF IsVolume(data)
           THEN NotifyStep(ProbeStep(TargetStep(w1)), TRUE, data)
           ELSE NotifyStep(w1, s.newdata, data)

\* what one _parse_message call did, for the record of the running call
LogEntry(before, after, data) ==
  [ data |-> data, before |-> before.avr, after |-> after.avr,
    out |-> SubSeq(after.out, Len(before.out) + 1, Len(after.out)),
    soon |-> SubSeq(after.ready, Len(before.ready) + 1, Len(after.ready)) ]

\* the for loop without the test for the empty segment
RECURSIVE ParseLoop_KeepEmpty(_, _)
ParseLoop_KeepEmpty(w, msgs) ==
  IF msgs = <<>> THEN w
  ELSE LET after == _parse_message(w, Head(msgs))
       IN  ParseLoop_KeepEmpty([after EXCEPT !.log = Append(@, LogEntry(w, after, Head(msgs)))],
                               Tail(msgs))

\* the for loop of _assemble_buffer over the segments of the buffer
RECURSIVE ParseLoop(_, _)
ParseLoop(w, msgs) ==
  IF msgs = <<>> THEN w
  ELSE IF Head(msgs) = <<>> THEN ParseLoop(w, Tail(msgs))
       ELSE LET after == _parse_message(w, Head(msgs))
            IN  ParseLoop([after EXCEPT !.log = Append(@, LogEntry(w, after, Head(msgs)))],
                          Tail(msgs))

\* _assemble_buffer: pause_reading, parse every non-empty segment of the
\* buffer, clear the buffer, resume_reading.  Without a transport
\* pause_reading raises AttributeError before anything is parsed.
_assemble_buffer(w) ==
  IF w.avr.transport = None THEN [w EXCEPT !.exc = Some("AttributeError")]
  ELSE [ParseLoop(w, split(w.avr.buffer)) EXCEPT !.avr.buffer = <<>>]

data_received(w, data) ==
  _assemble_buffer([w EXCEPT !.avr.buffer = @ \o data])

connection_made(w, transport) == [w EXCEPT !.avr.transport = transport]

connection_lost(w) ==
  LET w1 == [w EXCEPT !.avr.transport = None] IN
  IF w1.avr._connection_lost_callback # None THEN call_soon(w1, ConnectionLostCb) ELSE w1

\* ------------------------------------------------------------------------
\* The write accessors.  A Python argument is a record of its type and value.
\* ------------------------------------------------------------------------
PyInt(n) == [type |-> "int", v |-> n]
PyStr(x) == [type |-> "str", v |-> x]
\* True and False: bool is a subclass of int, True == 1 and False == 0
PyBool(b) == [type |-> "bool", v |-> IF b THEN 1 ELSE 0]
\* a float with three decimals, held in thousandths: PyFloat(500) is 0.5
PyFloat(m) == [type |-> "float", v |-> m]

\* isinstance(value, int)
IsInt(value) == value.type \in {"int", "bool"}

\* the range test of the attenuation setter left out
attenuation_set_NoRange(w, value) ==
  LET vol == _get_integer(w.avr, ATTR_VOLUME_UP) IN
  IF IsInt(value) /\ value.v # vol
  THEN send_command([w EXCEPT !.avr._volume_target = Some(value.v)],
                    IF value.v > vol THEN CMD_VOLUME_UP ELSE CMD_VOLUME_DOWN, <<>>)
  ELSE w

\* attenuation (setter): the current value is read with _get_integer
attenuation_set(w, value) ==
  LET vol == _get_integer(w.avr, ATTR_VOLUME_UP) IN
  IF IsInt(value) /\ MinAttenuation <= value.v /\ value.v <= 0 /\ value.v # vol
  THEN send_command([w EXCEPT !.avr._volume_target = Some(value.v)],
                    IF value.v > vol THEN CMD_VOLUME_UP ELSE CMD_VOLUME_DOWN, <<>>)
  ELSE w

\* volume (setter)
volume_set(w, value) ==
  IF IsInt(value) /\ 0 <= value.v /\ value.v <= MaxVolume
  THEN attenuation_set(w, PyInt(volume_to_attenuation(value.v)))
  ELSE w

\* The floats m / 1000 in 0..1 whose double product with 100 is not the
\* exact m / 10 and lies on the other side of a tie: 0.545 * 100 is
\* 54.50000000000001 (rounds to 55, the exact tie to 54) and 0.575 * 100 is
\* 57.49999999999999 (rounds to 57, the exact tie to 58).
PercentAboveTie == {545}
PercentBelowTie == {575}

\* round(value * 100) for 0 <= value <= 1
RoundPercent(value) ==
  IF value.type = "float"
  THEN IF value.v \in PercentAboveTie THEN value.v \div 10 + 1
       ELSE IF value.v \in PercentBelowTie THEN value.v \div 10
       ELSE RoundHalfEven(value.v, 10)
  ELSE value.v * 100

\* volume_as_percentage (setter)
volume_as_percentage_set(w, value) ==
  IF value.type = "float" \/ IsInt(value)
  THEN IF value.type = "float"
       THEN IF 0 <= value.v /\ value.v <= 1000
            THEN volume_set(w, PyInt(RoundPercent(value))) ELSE w
       ELSE IF 0 <= value.v /\ value.v <= 1
            THEN volume_set(w, PyInt(RoundPercent(value))) ELSE w
  ELSE w

\* the power setter storing what it has just asked for
power_set_Optimistic(w, value) ==
  LET w1 == send_command(w, CMD_SET_POWER_STATE,
                         IF value THEN POWER_STATE_ON ELSE POWER_STATE_OFF)
  IN  [w1 EXCEPT !.avr = _set_attribute_value(@, ATTR_POWER_STATE,
                                              IF value THEN <<"1">> ELSE <<"0">>)]

\* power (setter)
power_set(w, value) ==
  send_command(w, CMD_SET_POWER_STATE, IF value THEN POWER_STATE_ON ELSE POWER_STATE_OFF)

\* mute (setter)
mute_set(w, value) ==
  send_command(w, CMD_SET_MUTE_STATE, IF value THEN MUTE_STATE_ON ELSE MUTE_STATE_OFF)

DigitChar(d) ==
  CASE d = 0 -> "0" [] d = 1 -> "1" [] d = 2 -> "2" [] d = 3 -> "3"
    [] d = 4 -> "4" [] d = 5 -> "5" [] d = 6 -> "6" [] d = 7 -> "7"
    [] d = 8 -> "8" [] d = 9 -> "9"

\* f"{number:02d}" for 0 <= number <= 99
Format02d(number) == <<DigitChar(number \div 10), DigitChar(number % 10)>>

MaxInputNumber == 99

\* input_number (setter)
input_number_set(w, number) ==
  IF IsInt(number) /\ 1 <= number.v /\ number.v <= MaxInputNumber
  THEN send_command(w, CMD_SELECT_INPUT, Format02d(number.v))
  ELSE w

INPUT_NAMES ==
  << "BD/DVD", "Video 1", "Video 2", "CD/AUX", "Tape/MD/CDR", "Tuner",
     "Video 3", "Direct In", "TV ARC" >>

\* INPUT_NUMBERS.get(value, 0)
INPUT_NUMBERS(name) ==
  IF \E i \in 1..Len(INPUT_NAMES) : INPUT_NAMES[i] = name
  THEN CHOOSE i \in 1..Len(INPUT_NAMES) : INPUT_NAMES[i] = name
  ELSE 0

\* input_name (setter)
input_name_set(w, value) ==
  LET number == INPUT_NUMBERS(value) IN
  IF number > 0 THEN input_number_set(w, PyInt(number)) ELSE w

\* ------------------------------------------------------------------------
\* Inputs of the model
\* ------------------------------------------------------------------------
MsgPowerOn == ATTR_POWER_STATE \o <<",", "1">>
MsgPowerOff == ATTR_POWER_STATE \o <<",", "0">>
MsgMuteOff == ATTR_MUTE_STATE \o <<",", "0", "0">>
MsgVolUp(v) == ATTR_VOLUME_UP \o <<",">> \o v
MsgVolDown(v) == ATTR_VOLUME_DOWN \o <<",">> \o v
MsgUnknown == <<"#", "9", "9", ",", "9", "9", ",", "x">>

\* the messages the device sends
Messages ==
  { MsgPowerOn, MsgPowerOff, MsgMuteOff,
    MsgVolUp(<<"0">>), MsgVolUp(<<"-", "1">>), MsgVolDown(<<"-", "2">>),
    MsgUnknown, ERR_GROUP_UNKNOWN, ERR_NUMBER_UNKNOWN, ERR_DATA \o <<",">> }

\* the first piece of a received chunk: a message with its delimiter, a
\* delimiter alone, or one of the two halves of a message cut in its value
Heads(messages) ==
  {Append(m, CR) : m \in messages}
    \cup { <<CR>>, ATTR_POWER_STATE \o <<",">>, <<"1", CR>> }

\* the pieces that follow it when the device sends a burst
Tails == { Append(MsgMuteOff, CR) }

RECURSIVE Bursts(_, _)
Bursts(heads, n) ==
  IF n = 1 THEN heads
  ELSE Bursts(heads, n - 1) \cup {b \o t : b \in Bursts(heads, n - 1), t \in Tails}

\* framing: bursts of up to MaxPieces pieces, whole and cut messages
FrameMessages == {MsgPowerOn, MsgMuteOff, MsgVolUp(<<"-", "1">>), MsgUnknown, ERR_DATA \o <<",">>}
Chunks == Bursts(Heads(FrameMessages), MaxPieces)

\* decoding: every message alone, and the bursts that start with power-on
PowerBursts == Bursts({Append(MsgPowerOn, CR)}, MaxPieces)
DeviceChunks == {Append(m, CR) : m \in Messages} \cup PowerBursts

\* while the application writes: power-on bursts and one volume message
AccessChunks == PowerBursts \cup {Append(MsgVolUp(<<"-", "4", "5">>), CR)}

AttenuationArgs == {PyInt(-91), PyInt(-90), PyInt(-1), PyInt(0), PyInt(1)}
InputNumberArgs == {PyInt(0), PyInt(7), PyInt(100)}
InputNameArgs == {"Tuner", "Radio"}

\* what an application may hand to the volume writers: integers in and out
\* of range, booleans, floats and strings
AccessAttenuationArgs ==
  { PyInt(-91), PyInt(-90), PyInt(1), PyBool(FALSE), PyFloat(-45000),
    PyStr(<<"-", "4", "5">>) }
VolumeArgs == {PyInt(-1), PyInt(100), PyInt(101), PyBool(TRUE), PyFloat(50000)}
PercentageArgs ==
  { PyFloat(-10), PyFloat(500), PyFloat(1001), PyInt(2), PyBool(TRUE),
    PyStr(<<"0", ".", "5">>) }

\* ------------------------------------------------------------------------
\* State
\* ------------------------------------------------------------------------
VARIABLES
  avr,     \* the AVR instance
  ready,   \* the loop's queue of call_soon callbacks, oldest first
  timers,  \* the loop's call_later timers: the tries argument of each
  conn,    \* where asyncio is in the protocol's life: "new", "made", "lost"
  last,    \* what the last call did: its name, argument, writes, decodes
  hist,    \* history: probe triggers scheduled so far, and the Volume-Down
           \* commands written during the probe's first retry window
  conv,    \* a conversion round trip: the input, the converted value and
           \* the value converted back
  dev      \* the device at the other end of the transport, when it is
           \* modelled: its volume, the echoes it has not delivered yet and
           \* the Volume-Down and Volume-Up commands it has applied

vars == <<avr, ready, timers, conn, last, hist, conv, dev>>

NoCall(a) ==
  [op |-> "__init__", arg |-> <<>>, before |-> a, out |-> <<>>,
   exc |-> None, log |-> <<>>, soon |-> <<>>, armed |-> <<>>]

NoConv == [first |-> "none", x |-> 0, mid |-> 0, back |-> 0, pc |-> 0]

\* the device is not modelled: what the handler writes goes nowhere
NoDevice == [on |-> FALSE, volume |-> 0, echo |-> <<>>, downs |-> 0, ups |-> 0]

\* how an application constructs the handler: with both callbacks,
\* AVR(update_callback, loop, connection_lost_callback); with both or with
\* neither, AVR(loop=loop); with every combination of the two
WithCallbacks == {<<UPDATE_CALLBACK, CONNECTION_LOST_CALLBACK>>}
WithOrWithoutCallbacks == WithCallbacks \cup {<<None, None>>}
EveryCallbacks == {None, UPDATE_CALLBACK} \X {None, CONNECTION_LOST_CALLBACK}

InitHandler(callbacks) ==
  /\ \E cbs \in callbacks : avr = NewAVR(cbs[1], cbs[2])
  /\ ready = <<>>
  /\ timers = <<>>
  /\ conn = "new"
  /\ last = NoCall(avr)
  /\ hist = [triggers |-> 0, window |-> FALSE, downs |-> 0]

Init == InitHandler(WithCallbacks) /\ conv = NoConv /\ dev = NoDevice

InitFrame ==
  InitHandler(WithOrWithoutCallbacks) /\ conv = NoConv /\ dev = NoDevice

Count(seq, x) == Cardinality({i \in 1..Len(seq) : seq[i] = x})

Min(a, b) == IF a < b THEN a ELSE b

VolumeDownBytes == Encode(CMD_VOLUME_DOWN, <<>>)
VolumeUpBytes == Encode(CMD_VOLUME_UP, <<>>)

\* the history after a call by the loop (not by the user of the accessors)
\* that took the world from (avr, r0, t0) to w
NextHist(op, r0, w) ==
  LET soon == SubSeq(w.ready, Len(r0) + 1, Len(w.ready))
      downs == Count(w.out, VolumeDownBytes)
      starts == avr._volume_update_state = 0 /\ w.avr._volume_update_state = 1
  IN  [ triggers |-> hist.triggers + Count(soon, PoweronCb),
        window |-> IF starts THEN TRUE
                   ELSE IF op = "_refresh_volume" THEN FALSE ELSE hist.window,
        downs |-> IF starts THEN downs
                  ELSE IF hist.window /\ op # "_refresh_volume"
                       THEN Min(2, hist.downs + downs) ELSE hist.downs ]

\* str(n) of an integer
RECURSIVE NatStr(_)
NatStr(n) ==
  IF n < 10 THEN <<DigitChar(n)>> ELSE Append(NatStr(n \div 10), DigitChar(n % 10))

IntStr(n) == IF n < 0 THEN <<"-">> \o NatStr(0 - n) ELSE NatStr(n)

\* The device applies a Volume-Down or a Volume-Up written to the
\* transport as one step of its volume and answers with its new volume,
\* under the prefix of the command's direction; the answer is delivered
\* later.  Other commands do not concern its volume.
DeviceApply(d, bytes) ==
  IF bytes = VolumeDownBytes
  THEN [d EXCEPT !.volume = @ - 1, !.downs = @ + 1,
                 !.echo = Append(@, MsgVolDown(IntStr(d.volume - 1)))]
  ELSE IF bytes = VolumeUpBytes
  THEN [d EXCEPT !.volume = @ + 1, !.ups = @ + 1,
                 !.echo = Append(@, MsgVolUp(IntStr(d.volume + 1)))]
  ELSE d

RECURSIVE DeviceReceive(_, _)
DeviceReceive(d, out) ==
  IF out = <<>> THEN d ELSE DeviceReceive(DeviceApply(d, Head(out)), Tail(out))

\* the call op(arg) ran on the world (avr, r0, t0) and returned w; what it
\* wrote to the transport reaches the device d
CommitDevice(op, arg, r0, t0, w, d) ==
  /\ avr' = w.avr
  /\ ready' = w.ready
  /\ timers' = w.timers
  /\ last' = [op |-> op, arg |-> arg, before |-> avr, out |-> w.out,
              exc |-> w.exc, log |-> w.log,
              soon |-> SubSeq(w.ready, Len(r0) + 1, Len(w.ready)),
              armed |-> SubSeq(w.timers, Len(t0) + 1, Len(w.timers))]
  /\ dev' = IF d.on THEN DeviceReceive(d, w.out) ELSE d
  /\ UNCHANGED conv

Commit(op, arg, r0, t0, w) == CommitDevice(op, arg, r0, t0, w, dev)

Now == World(avr, ready, timers)

\* ------------------------------------------------------------------------
\* Actions
\* ------------------------------------------------------------------------
\* asyncio calls connection_made once, before anything else
ConnectionMade ==
  /\ conn = "new"
  /\ conn' = "made"
  /\ Commit("connection_made", <<>>, ready, timers, connection_made(Now, TRANSPORT))
  /\ UNCHANGED hist

\* asyncio calls data_received between connection_made and connection_lost,
\* from a callback of the loop: the callbacks that the previous call handed
\* to call_soon have run by then.  The device sends one of the given chunks.
DataReceived(chunks) ==
  /\ conn = "made"
  /\ ready = <<>>
  /\ \E data \in chunks :
       LET w == data_received(Now, data) IN
       /\ Commit("data_received", data, ready, timers, w)
       /\ hist' = NextHist("data_received", ready, w)
  /\ UNCHANGED conn

\* the device delivers the oldest of its pending answers, after any delay
DeviceEcho ==
  /\ conn = "made"
  /\ ready = <<>>
  /\ dev.on
  /\ dev.echo # <<>>
  /\ LET data == Append(Head(dev.echo), CR)
         w == data_received(Now, data)
     IN  /\ CommitDevice("data_received", data, ready, timers, w,
                         [dev EXCEPT !.echo = Tail(@)])
         /\ hist' = NextHist("data_received", ready, w)
  /\ UNCHANGED conn

ConnectionLost ==
  /\ conn = "made"
  /\ conn' = "lost"
  /\ Commit("connection_lost", <<>>, ready, timers, connection_lost(Now))
  /\ UNCHANGED hist

\* the loop runs the oldest callback of its ready queue
RunPoweronCallback ==
  /\ ready # <<>>
  /\ Head(ready) = PoweronCb
  /\ LET w == _poweron_callback(World(avr, Tail(ready), timers)) IN
     /\ Commit("_poweron_callback", <<>>, Tail(ready), timers, w)
     /\ hist' = NextHist("_poweron_callback", Tail(ready), w)
  /\ UNCHANGED conn

\* the update callback and the connection-lost callback belong to the
\* application: they get their argument and do not touch the handler
RunExternalCallback ==
  /\ ready # <<>>
  /\ Head(ready) # PoweronCb
  /\ Commit(Head(ready).cb, Head(ready).data, Tail(ready), timers,
            World(avr, Tail(ready), timers))
  /\ UNCHANGED <<conn, hist>>

\* the oldest timer fires, two seconds after it was armed: the callbacks
\* of call_soon that were pending then have run
TimerFire ==
  /\ timers # <<>>
  /\ \A i \in 1..Len(ready) : ready[i] # PoweronCb
  /\ LET w == _refresh_volume(World(avr, ready, Tail(timers)), Head(timers)) IN
     /\ Commit("_refresh_volume", Head(timers), ready, Tail(timers), w)
     /\ hist' = NextHist("_refresh_volume", ready, w)
  /\ UNCHANGED conn

\* the application writes an accessor, at any time
SetPower ==
  /\ \E value \in BOOLEAN : Commit("power", value, ready, timers, power_set(Now, value))
  /\ UNCHANGED <<conn, hist>>

SetMute ==
  /\ \E value \in BOOLEAN : Commit("mute", value, ready, timers, mute_set(Now, value))
  /\ UNCHANGED <<conn, hist>>

SetAttenuation(values) ==
  /\ \E value \in values :
       Commit("attenuation", value, ready, timers, attenuation_set(Now, value))
  /\ UNCHANGED <<conn, hist>>

SetVolume ==
  /\ \E value \in VolumeArgs :
       Commit("volume", value, ready, timers, volume_set(Now, value))
  /\ UNCHANGED <<conn, hist>>

SetVolumeAsPercentage ==
  /\ \E value \in PercentageArgs :
       Commit("volume_as_percentage", value, ready, timers,
              volume_as_percentage_set(Now, value))
  /\ UNCHANGED <<conn, hist>>

SetInputNumber ==
  /\ \E number \in InputNumberArgs :
       Commit("input_number", number, ready, timers, input_number_set(Now, number))
  /\ UNCHANGED <<conn, hist>>

SetInputName ==
  /\ \E value \in InputNameArgs :
       Commit("input_name", value, ready, timers, input_name_set(Now, value))
  /\ UNCHANGED <<conn, hist>>

\* the handler with the device sending every kind of message and the
\* application setting the attenuation
Next ==
  \/ ConnectionMade
  \/ DataReceived(DeviceChunks)
  \/ ConnectionLost
  \/ RunPoweronCallback
  \/ RunExternalCallback
  \/ TimerFire
  \/ SetAttenuation(AttenuationArgs)

Spec == Init /\ [][Next]_vars

\* the handler with the device sending bursts of whole and cut messages
NextFrame ==
  \/ ConnectionMade
  \/ DataReceived(Chunks)
  \/ ConnectionLost
  \/ RunPoweronCallback
  \/ RunExternalCallback
  \/ TimerFire

SpecFrame == InitFrame /\ [][NextFrame]_vars

\* the handler with the application writing every accessor, before, during
\* and after the connection; the device powers on
NextAccess ==
  \/ ConnectionMade
  \/ DataReceived(AccessChunks)
  \/ ConnectionLost
  \/ RunPoweronCallback
  \/ RunExternalCallback
  \/ TimerFire
  \/ SetPower
  \/ SetMute
  \/ SetAttenuation(AccessAttenuationArgs)
  \/ SetVolume
  \/ SetVolumeAsPercentage
  \/ SetInputNumber
  \/ SetInputName

SpecAccess == Init /\ [][NextAccess]_vars

\* The probe against a device that powers on, applies every volume command
\* and answers each with its new volume after any delay; the application
\* writes nothing, so no target is in flight.
DeviceVolume == -30

InitProbe ==
  /\ InitHandler(EveryCallbacks)
  /\ conv = NoConv
  /\ dev = [on |-> TRUE, volume |-> DeviceVolume, echo |-> <<>>, downs |-> 0, ups |-> 0]

NextProbe ==
  \/ ConnectionMade
  \/ DataReceived(PowerBursts)
  \/ DeviceEcho
  \/ ConnectionLost
  \/ RunPoweronCallback
  \/ RunExternalCallback
  \/ TimerFire

SpecProbe == InitProbe /\ [][NextProbe]_vars

\* the event loop runs: it calls the callbacks of its ready queue and fires
\* the timers that are due; when the device answers is up to the device
SpecProbeFair ==
  /\ SpecProbe
  /\ WF_vars(RunPoweronCallback)
  /\ WF_vars(RunExternalCallback)
  /\ WF_vars(TimerFire)

\* ------------------------------------------------------------------------
\* The conversion functions on their own: a round trip from every volume
\* and from every attenuation
\* ------------------------------------------------------------------------
InitConv ==
  /\ InitHandler(WithCallbacks)
  /\ dev = NoDevice
  /\ \/ \E v \in 0..MaxVolume :
          conv = [first |-> "volume_to_attenuation", x |-> v, mid |-> 0, back |-> 0, pc |-> 0]
     \/ \E dB \in MinAttenuation..0 :
          conv = [first |-> "attenuation_to_volume", x |-> dB, mid |-> 0, back |-> 0, pc |-> 0]

ToAttenuation ==
  /\ \/ /\ conv.first = "volume_to_attenuation" /\ conv.pc = 0
        /\ conv' = [conv EXCEPT !.mid = volume_to_attenuation(conv.x), !.pc = 1]
     \/ /\ conv.first = "attenuation_to_volume" /\ conv.pc = 1
        /\ conv' = [conv EXCEPT !.back = volume_to_attenuation(conv.mid), !.pc = 2]
  /\ UNCHANGED <<avr, ready, timers, conn, last, hist, dev>>

ToVolume ==
  /\ \/ /\ conv.first = "attenuation_to_volume" /\ conv.pc = 0
        /\ conv' = [conv EXCEPT !.mid = attenuation_to_volume(conv.x), !.pc = 1]
     \/ /\ conv.first = "volume_to_attenuation" /\ conv.pc = 1
        /\ conv' = [conv EXCEPT !.back = attenuation_to_volume(conv.mid), !.pc = 2]
  /\ UNCHANGED <<avr, ready, timers, conn, last, hist, dev>>

NextConv == ToAttenuation \/ ToVolume

SpecConv == InitConv /\ [][NextConv]_vars

\* ------------------------------------------------------------------------
\* Properties
\* ------------------------------------------------------------------------
\* Framing, stated on the bytes alone: the positions of the delimiters, the
\* segment that ends at a delimiter, and the delimiters that end a message
CRPositions(c) == {i \in 1..Len(c) : c[i] = CR}

Max(S) == CHOOSE x \in S : \A y \in S : y <= x

SegmentBefore(c, e) ==
  LET prev == {p \in CRPositions(c) : p < e}
  IN  SubSeq(c, IF prev = {} THEN 1 ELSE Max(prev) + 1, e - 1)

MessageEnds(c) == {e \in CRPositions(c) : SegmentBefore(c, e) # <<>>}

RECURSIVE Ascending(_)
Ascending(S) ==
  IF S = {} THEN <<>>
  ELSE LET m == CHOOSE x \in S : \A y \in S : x <= y IN <<m>> \o Ascending(S \ {m})

\* the non-empty CR-terminated segments of c, in order
TerminatedMessages(c) ==
  LET ends == Ascending(MessageEnds(c)) IN
  [i \in 1..Len(ends) |-> SegmentBefore(c, ends[i])]

\* what follows the last delimiter of c
Unterminated(c) ==
  SubSeq(c, IF CRPositions(c) = {} THEN 1 ELSE Max(CRPositions(c)) + 1, Len(c))

\* the messages the last call handed to the decoder, in order
Decoded == [i \in 1..Len(last.log) |-> last.log[i].data]

HasPrefix(data, prefixes) ==
  \E p \in prefixes : Len(data) >= Len(p) /\ \A i \in 1..Len(p) : data[i] = p[i]

AttrPrefixes ==
  { ATTR_POWER_STATE, ATTR_MUTE_STATE, ATTR_VOLUME_UP, ATTR_VOLUME_DOWN,
    ATTR_SELECTED_INPUT, ATTR_AUDIO_SOURCE, ATTR_MYSTERY, ATTR_SW_VERSION,
    ATTR_PROTOCOL_VERSION }

ErrorPrefixes == {ERR_GROUP_UNKNOWN, ERR_NUMBER_UNKNOWN, ERR_DATA}

VolumePrefixes == {ATTR_VOLUME_UP, ATTR_VOLUME_DOWN}

\* the value a volume message carries
VolumeValue(data) == int(SubSeq(data, Len(ATTR_VOLUME_UP) + 2, Len(data)))

\* the nudge from v towards the target
Nudge(target, v) == IF target > v THEN VolumeUpBytes ELSE VolumeDownBytes

\* C1: framing does not depend on where the stream is cut: after every
\* data_received the messages handed to the decoder are the non-empty
\* CR-terminated segments of the pending buffer followed by the chunk, and
\* what follows the last CR stays in the buffer, undecoded.
C1_FramingIgnoresCuts ==
  last.op = "data_received" =>
    /\ Decoded = TerminatedMessages(last.before.buffer \o last.arg)
    /\ avr.buffer = Unterminated(last.before.buffer \o last.arg)

\* C2: the non-empty CR-terminated segments of a chunk are handed to the
\* decoder once each and in arrival order, before anything else, and an
\* empty segment is not decoded: a chunk that ends with CR decodes exactly
\* its non-empty segments.
C2_BurstDecodedInOrder ==
  last.op = "data_received" =>
    LET tm == TerminatedMessages(last.arg) IN
    /\ Len(Decoded) >= Len(tm)
    /\ SubSeq(Decoded, 1, Len(tm)) = tm
    /\ last.arg[Len(last.arg)] = CR => Decoded = tm
    /\ \A i \in 1..Len(Decoded) : Decoded[i] # <<>>

\* the chunk "#6,01,1\r#6,11,00\r" was decoded as PowerState, then MuteState
C2_Witness ==
  /\ last.op = "data_received"
  /\ last.arg = Append(MsgPowerOn, CR) \o Append(MsgMuteOff, CR)
  /\ Decoded = <<MsgPowerOn, MsgMuteOff>>
  /\ avr.attrs["power_state"] = <<"1">>
  /\ avr.attrs["mute_state"] = <<"0", "0">>

\* C3: the power-on probe trigger is scheduled at most once in the life of
\* a handler instance.
C3_TriggerScheduledOnce == hist.triggers <= 1

\* C4: at most one probe retry timer is pending, and exactly one
\* Volume-Down has been written between the start of the probe and the
\* first firing of its retry timer.
C4_OneProbeOutstanding ==
  /\ Len(timers) <= 1
  /\ (hist.window /\ conn = "made") => hist.downs = 1

\* C5: target convergence.  Writing a target T different from the observed
\* attenuation C sends one nudge towards T; a volume message with a value v
\* different from the target in flight sends exactly one nudge towards it
\* and keeps the target; one with v equal to the target clears it and
\* sends nothing; without a target a volume message sends nothing.  (The
\* messages that answer a probe, which add the compensating Volume-Up, are
\* left aside.)
C5_TargetConvergence ==
  /\ last.op = "data_received" =>
       \A i \in 1..Len(last.log) :
         LET e == last.log[i]
             r == VolumeValue(e.data)
             t == e.before._volume_target
         IN  (HasPrefix(e.data, VolumePrefixes) /\ r.ok /\ e.before._volume_update_state # 1) =>
               IF t = None THEN e.out = <<>>
               ELSE IF r.val # t[1]
                    THEN e.out = <<Nudge(t[1], r.val)>> /\ e.after._volume_target = t
                    ELSE e.out = <<>> /\ e.after._volume_target = None
  /\ (last.op = "attenuation" /\ last.before.transport # None) =>
       LET r == int(last.before.attrs["volume"]) IN
       (r.ok /\ MinAttenuation <= last.arg.v /\ last.arg.v <= 0 /\ last.arg.v # r.val) =>
         last.out = <<Nudge(last.arg.v, r.val)>> /\ avr._volume_target = Some(last.arg.v)

\* C6: a write of Attenuation = T sets the target to T and sends one nudge
\* exactly when -90 <= T <= 0 and T differs from what the Attenuation read
\* returns (-90 while the volume is unknown); the nudge is Volume-Up exactly
\* when T is above that value; otherwise nothing is sent and the volume
\* synchronization state is unchanged.
C6_AttenuationWrite ==
  (last.op = "attenuation" /\ last.before.transport # None) =>
    LET T == last.arg.v
        C == attenuation(last.before)
    IN  IF MinAttenuation <= T /\ T <= 0 /\ T # C
        THEN avr._volume_target = Some(T) /\ last.out = <<Nudge(T, C)>>
        ELSE /\ last.out = <<>>
             /\ avr._volume_target = last.before._volume_target
             /\ avr._volume_update_state = last.before._volume_update_state

\* C7: a decoded message that starts with a device-error prefix, or with no
\* attribute prefix, leaves every DeviceState entry as it was, and no
\* exception leaves data_received.
C7_UnknownLeavesState ==
  last.op = "data_received" =>
    /\ last.exc = None
    /\ \A i \in 1..Len(last.log) :
         LET e == last.log[i] IN
         (HasPrefix(e.data, ErrorPrefixes) \/ ~HasPrefix(e.data, AttrPrefixes)) =>
           e.after.attrs = e.before.attrs

\* "#99,99,x" was decoded with the power known to be on and a target in flight
C7_Witness ==
  /\ last.op = "data_received"
  /\ \E i \in 1..Len(last.log) :
       /\ last.log[i].data = MsgUnknown
       /\ last.log[i].before.attrs["power_state"] = <<"1">>
       /\ last.log[i].before._volume_target # None
       /\ last.log[i].after.attrs = last.log[i].before.attrs

\* C8: once the connection is lost no probe retry timer is pending, none
\* fires, and the volume synchronization state is Idle.
C8_LostCancelsProbe ==
  conn = "lost" =>
    /\ timers = <<>>
    /\ avr._volume_update_state = 0
    /\ last.op # "_refresh_volume"

CommandOps ==
  { "power", "mute", "attenuation", "volume", "volume_as_percentage",
    "input_number", "input_name", "_refresh_volume", "_poweron_callback" }

\* C9: without a transport every command-issuing call returns without an
\* exception and writes nothing, and nothing was kept to be written later:
\* connection_made writes nothing.
C9_DroppedWithoutTransport ==
  /\ (last.op \in CommandOps /\ last.before.transport = None) =>
       (last.out = <<>> /\ last.exc = None)
  /\ last.op = "connection_made" => last.out = <<>>

\* a retry timer fired after the connection was lost, tried its
\* Volume-Down and armed the next retry
C9_Witness ==
  /\ conn = "lost"
  /\ last.op = "_refresh_volume"
  /\ last.before.transport = None
  /\ last.before._volume_update_state = 1
  /\ last.armed # <<>>

Abs(n) == IF n < 0 THEN 0 - n ELSE n

\* C10: converting a volume of 0..100 to an attenuation and back, or an
\* attenuation of -90..0 to a volume and back, gives the input within 1.
C10_RoundTrip == conv.pc = 2 => Abs(conv.back - conv.x) <= 1

\* volume 35 went to -59 dB (its product 31.499999999999996 rounds down)
\* and came back as 34
C10_Witness ==
  /\ conv.pc = 2
  /\ conv.first = "volume_to_attenuation"
  /\ conv.x = 35
  /\ conv.mid = -59
  /\ conv.back = 34

\* C11: the target attenuation is None or an integer of -90..0 in every
\* state, whatever the application writes to attenuation, volume and
\* volume_as_percentage and whatever the device sends.
C11_TargetInRange ==
  avr._volume_target # None =>
    (avr._volume_target[1] \in Int /\ avr._volume_target[1] \in MinAttenuation..0)

\* volume_as_percentage = 0.5 had set the target -45; then 1.001 was
\* written and left it alone
C11_Witness ==
  /\ last.op = "volume_as_percentage"
  /\ last.arg = PyFloat(1001)
  /\ last.before._volume_target = Some(-45)
  /\ avr._volume_target = Some(-45)
  /\ last.out = <<>>

\* the transitions of the volume synchronization state:
\* Idle (0) -> ProbeRequested (1) -> ProbeCompleted (2) -> Idle (0)
SyncTransitions == {<<0, 1>>, <<1, 2>>, <<2, 0>>}

\* C12: every change of the volume synchronization state, by a whole call
\* of the loop or the application and by each message decoded within a
\* call, is Idle -> ProbeRequested, ProbeRequested -> ProbeCompleted or
\* ProbeCompleted -> Idle.
C12_SyncTransitionsOnly ==
  [][ /\ avr'._volume_update_state # avr._volume_update_state =>
           <<avr._volume_update_state, avr'._volume_update_state>> \in SyncTransitions
      /\ \A i \in 1..Len(last'.log) :
           LET e == last'.log[i] IN
           e.after._volume_update_state # e.before._volume_update_state =>
             <<e.before._volume_update_state, e.after._volume_update_state>> \in SyncTransitions
    ]_vars

\* a retry timer fired in ProbeCompleted and put the state back to Idle
C12_Witness ==
  /\ last.op = "_refresh_volume"
  /\ last.before._volume_update_state = 2
  /\ avr._volume_update_state = 0

\* C13: the probe leaves the volume of the device as it was.  Against a
\* device that applies each Volume-Down and Volume-Up as one step and
\* answers with its new volume after any delay, without a target in flight
\* and with the probe triggered once: when the probe is over (the state has
\* left ProbeRequested), the device has got as many Volume-Up commands as
\* Volume-Down commands and its volume is what it was.
C13_ProbeCompensated ==
  ( /\ dev.on
    /\ hist.triggers <= 1
    /\ avr._poweron_refresh_successful
    /\ avr._volume_update_state # 1 ) =>
      (dev.ups = dev.downs /\ dev.volume = DeviceVolume)

\* C14: the retry loop of the probe is bounded.  While the connection is
\* up and no volume message has been observed, the handler has written at
\* most 10 Volume-Down commands and no call has raised; once the trigger
\* has run and no retry timer is pending it has written exactly 10, and
\* the probe is abandoned in ProbeRequested.
C14_ProbeBounded ==
  (dev.on /\ conn = "made" /\ avr.attrs["volume"] = <<>>) =>
    /\ dev.downs <= MaxTries
    /\ dev.ups = 0
    /\ last.exc = None
    /\ \A i \in 1..Len(timers) : timers[i] <= MaxTries
    /\ (avr._poweron_refresh_successful /\ timers = <<>>
          /\ \A i \in 1..Len(ready) : ready[i] # PoweronCb) =>
         (dev.downs = MaxTries /\ avr._volume_update_state = 1)

\* C15: whenever the volume synchronization state is ProbeCompleted it is
\* Idle at some later point, provided the loop fires its pending timers
\* and runs its pending callbacks.
C15_CompletedIsReset ==
  (avr._volume_update_state = 2) ~> (avr._volume_update_state = 0)

\* C16: a write of an in-range target T2 while another target T1 is in
\* flight overwrites it.  With the volume known and the transport there,
\* after attenuation = T2 (T2 in -90..0, T2 # T1) the target is T2 and, T2
\* differing from the observed attenuation C, exactly one nudge from C
\* towards T2 was written; and every nudge a later volume message causes
\* is directed at the target in flight when the message is decoded.
C16_TargetOverwritten ==
  /\ ( /\ last.op = "attenuation"
       /\ last.before.transport # None
       /\ last.before._volume_target # None
       /\ int(last.before.attrs["volume"]).ok
       /\ IsInt(last.arg)
       /\ last.arg.v \in MinAttenuation..0
       /\ last.arg.v # last.before._volume_target[1] ) =>
         LET T2 == last.arg.v
             C == attenuation(last.before)
         IN  /\ avr._volume_target = Some(T2)
             /\ T2 # C => last.out = <<Nudge(T2, C)>>
  /\ last.op = "data_received" =>
       \A i \in 1..Len(last.log) :
         LET e == last.log[i]
             r == VolumeValue(e.data)
             t == e.before._volume_target
         IN  ( /\ HasPrefix(e.data, VolumePrefixes) /\ r.ok
               /\ e.before._volume_update_state # 1 /\ e.out # <<>> ) =>
               (t # None /\ e.out = <<Nudge(t[1], r.val)>>)

\* the update notifications among the callbacks a decoded message scheduled
Notifications(soon) == SelectSeq(soon, LAMBDA c : c.cb = "_update_callback")

\* C17, as stated: a decoded message schedules exactly one update
\* notification, with the raw message as its argument, when it changed an
\* attribute field or is a volume message (#6,02 or #6,03, changed or not);
\* it schedules none otherwise: a recognized message with the stored value,
\* a device error, an unrecognized message.
C17_NotifiedWhenChanged ==
  last.op = "data_received" =>
    \A i \in 1..Len(last.log) :
      LET e == last.log[i] IN
      IF e.after.attrs # e.before.attrs \/ HasPrefix(e.data, VolumePrefixes)
      THEN Notifications(e.soon) = <<UpdateCb(e.data)>>
      ELSE Notifications(e.soon) = <<>>

\* C17, amended: a handler constructed with an update callback schedules
\* exactly one update notification, with the raw message as its argument,
\* for a decoded message that changed an attribute field or is a volume
\* message, and none for any other message; a handler constructed without
\* an update callback schedules none for any message.
C17_NotifiedIfCallback ==
  last.op = "data_received" =>
    \A i \in 1..Len(last.log) :
      LET e == last.log[i] IN
      IF /\ e.before._update_callback # None
         /\ e.after.attrs # e.before.attrs \/ HasPrefix(e.data, VolumePrefixes)
      THEN Notifications(e.soon) = <<UpdateCb(e.data)>>
      ELSE Notifications(e.soon) = <<>>

\* in a handler with an update callback "#6,01,1" was decoded with the power
\* already known to be on and scheduled no notification; "#6,11,00" after
\* it in the same chunk changed the mute state and scheduled one
C17_Witness ==
  /\ last.op = "data_received"
  /\ avr._update_callback = UPDATE_CALLBACK
  /\ Decoded = <<MsgPowerOn, MsgMuteOff>>
  /\ last.log[1].before.attrs["power_state"] = <<"1">>
  /\ Notifications(last.log[1].soon) = <<>>
  /\ last.log[2].before.attrs["mute_state"] = <<>>
  /\ Notifications(last.log[2].soon) = <<UpdateCb(MsgMuteOff)>>

RECURSIVE Scheduled(_)
\* the callbacks the messages of a call scheduled, in order
Scheduled(log) ==
  IF log = <<>> THEN <<>> ELSE Head(log).soon \o Scheduled(Tail(log))

\* C18: the power-on trigger and the update notification do not run inside
\* the data_received call that decoded their message.  When data_received
\* returns, every callback its messages scheduled is still in the ready
\* queue, the power-on flag is what it was, the probe has not started (no
\* timer armed, no message took the state to ProbeRequested) and a message
\* that is not a volume message has written nothing.
C18_CallbacksDeferred ==
  last.op = "data_received" =>
    /\ ready = Scheduled(last.log)
    /\ avr._poweron_refresh_successful = last.before._poweron_refresh_successful
    /\ last.armed = <<>>
    /\ \A i \in 1..Len(last.log) :
         LET e == last.log[i] IN
         /\ e.after._poweron_refresh_successful = e.before._poweron_refresh_successful
         /\ e.after._volume_update_state = 1 => e.before._volume_update_state = 1
         /\ ~HasPrefix(e.data, VolumePrefixes) => e.out = <<>>

\* "#6,01,1" was decoded for the first time: the trigger and the
\* notification wait in the ready queue, nothing is written, the flag is
\* not set
C18_Witness ==
  /\ last.op = "data_received"
  /\ Decoded = <<MsgPowerOn>>
  /\ ready = <<PoweronCb, UpdateCb(MsgPowerOn)>>
  /\ last.out = <<>>
  /\ ~avr._poweron_refresh_successful
  /\ avr._volume_update_state = 0
  /\ timers = <<>>

\* C19: the attribute fields change in data_received only.  Every other
\* call (a write accessor, a timer fire, the power-on callback,
\* connection_made, connection_lost, a callback of the application) leaves
\* every field, and with it what the read accessors return, as it was: a
\* written value is not visible before the device's message is decoded.
C19_DecoderOwnsState ==
  last.op # "data_received" =>
    /\ avr.attrs = last.before.attrs
    /\ power(avr) = power(last.before)
    /\ mute(avr) = mute(last.before)
    /\ attenuation(avr) = attenuation(last.before)
    /\ volume(avr) = volume(last.before)
    /\ input_number(avr) = input_number(last.before)

\* power = True was written to the transport and the power read is still
\* False
C19_Witness ==
  /\ last.op = "power"
  /\ last.arg = TRUE
  /\ last.out = <<Encode(CMD_SET_POWER_STATE, POWER_STATE_ON)>>
  /\ ~power(avr)
  /\ avr.attrs["power_state"] = <<>>

\* C20: the two volume prefixes share one stored volume.  In every state
\* the value stored for #6,02 is the value stored for #6,03; a volume
\* message of either prefix stores its value, which the attenuation read
\* then returns, and nothing else changes the stored volume; and the
\* convergence towards a target compares the target with that value.
C20_OneStoredVolume ==
  /\ _get_attribute_value(avr, ATTR_VOLUME_UP) = _get_attribute_value(avr, ATTR_VOLUME_DOWN)
  /\ last.op # "data_received" =>
       _get_attribute_value(avr, ATTR_VOLUME_UP) =
         _get_attribute_value(last.before, ATTR_VOLUME_UP)
  /\ last.op = "data_received" =>
       \A i \in 1..Len(last.log) :
         LET e == last.log[i]
             r == VolumeValue(e.data)
             t == e.before._volume_target
         IN  IF HasPrefix(e.data, VolumePrefixes)
             THEN /\ _get_attribute_value(e.after, ATTR_VOLUME_UP) =
                       SubSeq(e.data, Len(ATTR_VOLUME_UP) + 2, Len(e.data))
                  /\ r.ok => attenuation(e.after) = r.val
                  /\ (r.ok /\ Truthy(t) /\ e.before._volume_update_state # 1) =>
                       IF r.val # t[1]
                       THEN e.out = <<Nudge(t[1], r.val)>>
                       ELSE e.out = <<>> /\ e.after._volume_target = None
             ELSE _get_attribute_value(e.after, ATTR_VOLUME_UP) =
                    _get_attribute_value(e.before, ATTR_VOLUME_UP)

\* with 0 stored by a #6,02 message and the target -1 in flight, "#6,03,-2"
\* was decoded: the attenuation read gives -2 and the nudge is a Volume-Up
C20_Witness ==
  /\ last.op = "data_received"
  /\ Decoded = <<MsgVolDown(<<"-", "2">>)>>
  /\ last.before.attrs["volume"] = <<"0">>
  /\ last.before._volume_target = Some(-1)
  /\ last.before._volume_update_state = 0
  /\ attenuation(avr) = -2
  /\ last.out = <<VolumeUpBytes>>

====
